---- MODULE Spec2Model ----
(***************************************************************************)
(* A model of peermaps-ingest (src/src/lib.rs): the two phases of Ingest.  *)
(*   P1  load_pbf : producer thread -> bounded channel -> worker threads   *)
(*                  -> XQ.add_records, then finish / flush on the main     *)
(*                  thread.                                                *)
(*   P2  process  : for each quad bucket, denormalize every record, build  *)
(*                  its bbox, encode it and insert the rows with EDB.batch,*)
(*                  then EDB.sync.                                         *)
(* The external collaborators (osmpbf, osmxq, georender_pack, eyros) are   *)
(* the environment: what they return is drawn from small sets.             *)
(***************************************************************************)
EXTENDS Integers, Sequences, FiniteSets, TLC

VARIABLES
  \* ---- P1 (Ingest::load_pbf) ----
  prodpc,         \* producer thread: idle, open, blobs, block, done, failed, panicked
  block,          \* elements left in the block being iterated: TRUE = from_pbf_element is Ok
  nblobs,         \* blobs taken from blob_iter
  nelems,         \* elements sent so far; element n is the n-th sent
  chan,           \* the bounded channel, oldest first
  wpc,            \* worker threads: idle, recv, lock, add, lock_tail, add_tail, exited
  records,        \* each worker's local Vec
  xqLock,         \* holder of the quad store's mutex, or Free
  mainpc,         \* load_pbf on the main thread: start, join, finish, flush, end, done, panicked
  joined,         \* workers joined so far
  ret,            \* what load_pbf returned: none, Ok, Err
  pbf,            \* progress of stage "pbf": [state, count, errors]
  xqCalls,        \* the add_records calls made, in order: [w, recs, ok]
  finishCalls,    \* XQ.finish calls completed
  flushCalls,     \* XQ.flush calls completed
  \* ---- P2 (Ingest::process) ----
  ppc,            \* position of process(): start, quads, records, batch, sync, end, done, panicked
  quad_ids,       \* number of buckets get_quad_ids returned
  qi,             \* index of the bucket being handled (1..quad_ids)
  rlen,           \* records.len() of the bucket read by read_quad_denorm
  ri,             \* records of the bucket handled so far
  batch,          \* the bucket's Vec of eyros rows
  dbArg,          \* rows given to the EDB.batch call in flight
  batchCalls,     \* EDB.batch calls completed
  syncCalls,      \* EDB.sync calls completed
  process,        \* progress of stage "process": [state, count]
  last,           \* how the record handled last left its match arm
  \* ---- process() run again on one quad store ----
  xq,             \* contents of the quad store: the buckets, each a list of records
  runs,           \* the runs of process() made on xq: [done, rows]
  \* ---- the command line program and its Monitor (bin.rs) ----
  cli,            \* run() on the main thread: start, pbf, process, ended, exited
  mon,            \* the display thread: none, sleep, print, tick, check, final, stopped
  stop,           \* the flag Monitor::end sets
  prRead,         \* the display thread holds a read guard of the progress
  rendered        \* the render after the flag was seen set has been printed

p2vars == <<ppc, last, quad_ids, qi, rlen, ri, batch, dbArg,
            batchCalls, syncCalls, process>>

p1vars == <<prodpc, block, nblobs, nelems, chan, wpc, records, xqLock, mainpc,
            joined, ret, pbf, xqCalls, finishCalls, flushCalls>>

xqvars == <<xq, runs>>

monvars == <<cli, mon, stop, prRead, rendered>>

vars == <<p1vars, p2vars, xqvars, monvars>>

(***************************************************************************)
(* Bounds of the model.                                                    *)
(***************************************************************************)
NUM_WORKERS == 2 \* worker threads (4 in the code)
BATCH_SIZE == 2  \* records of a full batch (50_000 in the code)
CHANNEL_CAP == 1 \* capacity of the channel (1_000 in the code)
MaxBlobs == 2    \* blobs of the input
MaxElems == 3    \* elements of the input
IdBits == 4      \* width of the unsigned ids of the model (u64 in the code)
MaxQuads == 2    \* buckets returned by get_quad_ids
MaxRecs == 2     \* records in a bucket
MaxDeps == 3     \* dependencies of a record

RECURSIVE Pow2(_)
Pow2(n) == IF n = 0 THEN 1 ELSE 2 * Pow2(n - 1)

\* 2^w: u64 arithmetic of the code is arithmetic modulo U64
U64 == Pow2(IdBits)

(***************************************************************************)
(* The data model (Decoded, dependencies, eyros rows).                     *)
(***************************************************************************)
\* the feature type "place.other" of georender_pack's type table
place_other == 0

FeatureTypes == {place_other, 1}

\* an osm id whose product by 3 does not fit the id width, and a small one
BigId == (U64 \div 3) + 1
Ids == {1, BigId}

\* what georender_pack returns for a record: Err, Ok(empty), Ok(bytes)
EncOutcomes == {"Err", "Empty", "Ok"}

NoPos == <<>>

\* the id under which the store keeps a dependency: osm id * 3 + tag
StoredId(osm, tag) == osm * 3 + tag

\* the dependencies a denormalized read may list, in the order of the list:
\* node 1 (listed twice: a way may ref a node twice), node 2 at the
\* coordinate of node 1, node 3 elsewhere, a way with refs, a way without
DepList ==
  << [id |-> StoredId(1, 0), pos |-> <<0, 1>>, refs |-> <<>>],
     [id |-> StoredId(1, 0), pos |-> <<0, 1>>, refs |-> <<>>],
     [id |-> StoredId(2, 0), pos |-> <<0, 1>>, refs |-> <<>>],
     [id |-> StoredId(3, 0), pos |-> <<1, 0>>, refs |-> <<>>],
     [id |-> StoredId(4, 1), pos |-> NoPos,
      refs |-> <<StoredId(1, 0), StoredId(3, 0)>>],
     [id |-> StoredId(5, 1), pos |-> NoPos, refs |-> <<>>] >>

\* the strictly increasing index sequences of length n over 1..Len(DepList)
RECURSIVE IncSeqs(_, _)
IncSeqs(n, lo) ==
  IF n = 0 THEN {<<>>}
  ELSE UNION { { <<i>> \o s : s \in IncSeqs(n - 1, i + 1) } :
               i \in lo..Len(DepList) }

DepSeqs ==
  UNION { { [k \in 1..n |-> DepList[s[k]]] : s \in IncSeqs(n, 1) } :
          n \in 0..MaxDeps }

NodePositions == {<<0, 0>>, <<1, 2>>}

Nodes ==
  { [kind |-> "Node", id |-> i, feature_type |-> ft, enc |-> e,
     lon |-> p[1], lat |-> p[2], deps |-> <<>>] :
    i \in Ids, ft \in FeatureTypes, e \in EncOutcomes, p \in NodePositions }

Ways ==
  { [kind |-> "Way", id |-> i, feature_type |-> ft, enc |-> e,
     lon |-> 0, lat |-> 0, deps |-> d] :
    i \in Ids, ft \in FeatureTypes, e \in EncOutcomes, d \in DepSeqs }

Relations ==
  { [kind |-> "Relation", id |-> i, feature_type |-> ft, enc |-> e,
     lon |-> 0, lat |-> 0, deps |-> d] :
    i \in Ids, ft \in FeatureTypes, e \in EncOutcomes, d \in DepSeqs }

\* the records read_quad_denorm may return
Decoded == Nodes \cup Ways \cup Relations

Scalar(v) == <<"Scalar", v>>
Interval(lo, hi) == <<"Interval", lo, hi>>

(***************************************************************************)
(* Ingest::load_pbf.                                                       *)
(***************************************************************************)
Workers == 1..NUM_WORKERS
Free == 0
Main == NUM_WORKERS + 1

\* a channel whose Sender outlives a producer that ends early
DisconnectedAtEnd == prodpc = "done"

\* every Sender is dropped: the producer thread has ended
Disconnected == prodpc \in {"done", "failed", "panicked"}

SeqSet(q) == { q[k] : k \in 1..Len(q) }

\* the blocks a data blob may decode to, n elements at most
Blocks(n) == UNION { [1..k -> BOOLEAN] : k \in 1..n }

InitLoad ==
  /\ prodpc = "idle"
  /\ block = <<>>
  /\ nblobs = 0
  /\ nelems = 0
  /\ chan = <<>>
  /\ wpc = [w \in Workers |-> "idle"]
  /\ records = [w \in Workers |-> <<>>]
  /\ xqLock = Free
  /\ mainpc = "start"
  /\ joined = 0
  /\ ret = "none"
  /\ pbf = [state |-> "idle", count |-> 0, errors |-> 0]
  /\ xqCalls = <<>>
  /\ finishCalls = 0
  /\ flushCalls = 0

\* progress.start("pbf"); the channel is made; the threads are spawned
StartLoad ==
  /\ mainpc = "start"
  /\ pbf' = [pbf EXCEPT !.state = "started"]
  /\ prodpc' = "open"
  /\ wpc' = [w \in Workers |-> "recv"]
  /\ mainpc' = "join"
  /\ UNCHANGED <<p2vars, xqvars, monvars>>
  /\ UNCHANGED <<block, nblobs, nelems, chan, records, xqLock, joined, ret,
                 xqCalls, finishCalls, flushCalls>>

\* ---- the producer thread ----

\* Mmap::from_path(pbf) is Ok
OpenPbf ==
  /\ prodpc = "open"
  /\ prodpc' = "blobs"
  /\ UNCHANGED <<p2vars, xqvars, monvars>>
  /\ UNCHANGED <<block, nblobs, nelems, chan, wpc, records, xqLock, mainpc,
                 joined, ret, pbf, xqCalls, finishCalls, flushCalls>>

\* Mmap::from_path(pbf) is Err: unwrap panics and the thread ends
OpenFail ==
  /\ prodpc = "open"
  /\ prodpc' = "panicked"
  /\ UNCHANGED <<p2vars, xqvars, monvars>>
  /\ UNCHANGED <<block, nblobs, nelems, chan, wpc, records, xqLock, mainpc,
                 joined, ret, pbf, xqCalls, finishCalls, flushCalls>>

\* blob.decode() is Ok(OsmHeader) or Ok(Unknown): nothing is sent
SkipBlob ==
  /\ prodpc = "blobs"
  /\ nblobs < MaxBlobs
  /\ nblobs' = nblobs + 1
  /\ UNCHANGED <<p2vars, xqvars, monvars>>
  /\ UNCHANGED <<prodpc, block, nelems, chan, wpc, records, xqLock, mainpc,
                 joined, ret, pbf, xqCalls, finishCalls, flushCalls>>

\* blob.decode() is Ok(OsmData(block)): for_each_element starts
DataBlob ==
  /\ prodpc = "blobs"
  /\ nblobs < MaxBlobs
  /\ nelems < MaxElems
  /\ \E b \in Blocks(MaxElems - nelems) : block' = b
  /\ nblobs' = nblobs + 1
  /\ prodpc' = "block"
  /\ UNCHANGED <<p2vars, xqvars, monvars>>
  /\ UNCHANGED <<nelems, chan, wpc, records, xqLock, mainpc, joined, ret, pbf,
                 xqCalls, finishCalls, flushCalls>>

\* blob? or blob.decode() is Err: try_for_each stops, the error is printed
\* and the thread ends
BlobError ==
  /\ prodpc = "blobs"
  /\ nblobs < MaxBlobs
  /\ nblobs' = nblobs + 1
  /\ prodpc' = "failed"
  /\ UNCHANGED <<p2vars, xqvars, monvars>>
  /\ UNCHANGED <<block, nelems, chan, wpc, records, xqLock, mainpc, joined,
                 ret, pbf, xqCalls, finishCalls, flushCalls>>

\* blob_iter is exhausted: the thread ends
EndOfInput ==
  /\ prodpc = "blobs"
  /\ prodpc' = "done"
  /\ UNCHANGED <<p2vars, xqvars, monvars>>
  /\ UNCHANGED <<block, nblobs, nelems, chan, wpc, records, xqLock, mainpc,
                 joined, ret, pbf, xqCalls, finishCalls, flushCalls>>

\* a send on a channel without a bound
SendUnbounded ==
  /\ prodpc = "block"
  /\ Head(block)
  /\ chan' = Append(chan, nelems + 1)
  /\ nelems' = nelems + 1
  /\ block' = Tail(block)
  /\ prodpc' = IF Tail(block) = <<>> THEN "blobs" ELSE "block"
  /\ UNCHANGED <<p2vars, xqvars, monvars>>
  /\ UNCHANGED <<nblobs, wpc, records, xqLock, mainpc, joined, ret, pbf,
                 xqCalls, finishCalls, flushCalls>>

\* from_pbf_element is Ok; sender.send(r) blocks while the channel is full
SendElement ==
  /\ prodpc = "block"
  /\ Head(block)
  /\ Len(chan) < CHANNEL_CAP
  /\ chan' = Append(chan, nelems + 1)
  /\ nelems' = nelems + 1
  /\ block' = Tail(block)
  /\ prodpc' = IF Tail(block) = <<>> THEN "blobs" ELSE "block"
  /\ UNCHANGED <<p2vars, xqvars, monvars>>
  /\ UNCHANGED <<nblobs, wpc, records, xqLock, mainpc, joined, ret, pbf,
                 xqCalls, finishCalls, flushCalls>>

\* from_pbf_element is not Ok: unwrap panics and the thread ends, the rest
\* of the block and of the input unread
ProjectFail ==
  /\ prodpc = "block"
  /\ ~Head(block)
  /\ prodpc' = "panicked"
  /\ UNCHANGED <<p2vars, xqvars, monvars>>
  /\ UNCHANGED <<block, nblobs, nelems, chan, wpc, records, xqLock, mainpc,
                 joined, ret, pbf, xqCalls, finishCalls, flushCalls>>

\* ---- the worker threads ----

\* receiver.recv() is Ok(record); records.push(record)
Recv(w) ==
  /\ wpc[w] = "recv"
  /\ chan # <<>>
  /\ chan' = Tail(chan)
  /\ records' = [records EXCEPT ![w] = Append(@, Head(chan))]
  /\ wpc' = [wpc EXCEPT ![w] =
               IF Len(records[w]) + 1 >= BATCH_SIZE THEN "lock" ELSE "recv"]
  /\ UNCHANGED <<p2vars, xqvars, monvars>>
  /\ UNCHANGED <<prodpc, block, nblobs, nelems, xqLock, mainpc, joined, ret,
                 pbf, xqCalls, finishCalls, flushCalls>>

\* a worker that commits its remainder even when it is empty
RecvClosedCommits(w) ==
  /\ wpc[w] = "recv"
  /\ chan = <<>>
  /\ Disconnected
  /\ wpc' = [wpc EXCEPT ![w] = "lock_tail"]
  /\ UNCHANGED <<p2vars, xqvars, monvars>>
  /\ UNCHANGED <<prodpc, block, nblobs, nelems, chan, records, xqLock, mainpc,
                 joined, ret, pbf, xqCalls, finishCalls, flushCalls>>

\* a worker that ends at channel close without committing its remainder
RecvClosedDrops(w) ==
  /\ wpc[w] = "recv"
  /\ chan = <<>>
  /\ Disconnected
  /\ wpc' = [wpc EXCEPT ![w] = "exited"]
  /\ UNCHANGED <<p2vars, xqvars, monvars>>
  /\ UNCHANGED <<prodpc, block, nblobs, nelems, chan, records, xqLock, mainpc,
                 joined, ret, pbf, xqCalls, finishCalls, flushCalls>>

\* receiver.recv() is Err: the channel is empty and disconnected
RecvClosed(w) ==
  /\ wpc[w] = "recv"
  /\ chan = <<>>
  /\ Disconnected
  /\ wpc' = [wpc EXCEPT ![w] =
               IF records[w] # <<>> THEN "lock_tail" ELSE "exited"]
  /\ UNCHANGED <<p2vars, xqvars, monvars>>
  /\ UNCHANGED <<prodpc, block, nblobs, nelems, chan, records, xqLock, mainpc,
                 joined, ret, pbf, xqCalls, finishCalls, flushCalls>>

\* a worker that reaches the store without waiting for the mutex
LockUnguarded(w) ==
  /\ wpc[w] \in {"lock", "lock_tail"}
  /\ xqLock' = w
  /\ wpc' = [wpc EXCEPT ![w] = IF @ = "lock" THEN "add" ELSE "add_tail"]
  /\ UNCHANGED <<p2vars, xqvars, monvars>>
  /\ UNCHANGED <<prodpc, block, nblobs, nelems, chan, records, mainpc, joined,
                 ret, pbf, xqCalls, finishCalls, flushCalls>>

\* xq.lock()
Lock(w) ==
  /\ wpc[w] \in {"lock", "lock_tail"}
  /\ xqLock = Free
  /\ xqLock' = w
  /\ wpc' = [wpc EXCEPT ![w] = IF @ = "lock" THEN "add" ELSE "add_tail"]
  /\ UNCHANGED <<p2vars, xqvars, monvars>>
  /\ UNCHANGED <<prodpc, block, nblobs, nelems, chan, records, mainpc, joined,
                 ret, pbf, xqCalls, finishCalls, flushCalls>>

\* a worker that keeps the records of a failed batch in its Vec
KeptAfterErr(recs) == recs

\* records.clear() after a failed add_records
ClearedAfterErr(recs) == <<>>

\* a full batch: add_records, push_err or add, records.clear(), unlock
AddRecords(w) ==
  /\ wpc[w] = "add"
  /\ \E ok \in BOOLEAN :
       /\ xqCalls' = Append(xqCalls, [w |-> w, recs |-> records[w], ok |-> ok])
       /\ pbf' = IF ok THEN [pbf EXCEPT !.count = @ + Len(records[w])]
                       ELSE [pbf EXCEPT !.errors = @ + 1]
       /\ records' = [records EXCEPT ![w] =
                        IF ok THEN <<>> ELSE ClearedAfterErr(@)]
  /\ xqLock' = Free
  /\ wpc' = [wpc EXCEPT ![w] = "recv"]
  /\ UNCHANGED <<p2vars, xqvars, monvars>>
  /\ UNCHANGED <<prodpc, block, nblobs, nelems, chan, mainpc, joined, ret,
                 finishCalls, flushCalls>>

\* the remainder after the loop: add_records, push_err on Err, add in
\* either case, unlock; the thread ends
AddTail(w) ==
  /\ wpc[w] = "add_tail"
  /\ \E ok \in BOOLEAN :
       /\ xqCalls' = Append(xqCalls, [w |-> w, recs |-> records[w], ok |-> ok])
       /\ pbf' = [pbf EXCEPT !.count = @ + Len(records[w]),
                             !.errors = IF ok THEN @ ELSE @ + 1]
  /\ xqLock' = Free
  /\ wpc' = [wpc EXCEPT ![w] = "exited"]
  /\ UNCHANGED <<p2vars, xqvars, monvars>>
  /\ UNCHANGED <<prodpc, block, nblobs, nelems, chan, records, mainpc, joined,
                 ret, finishCalls, flushCalls>>

\* ---- the main thread ----

\* a loop over the workers that stops after the first join
JoinedFirst(j) == j >= 1

\* for worker in workers: every worker is joined
JoinedAll(j) == j = NUM_WORKERS

\* worker.join() returns: the next worker has ended
Join ==
  /\ mainpc = "join"
  /\ ~JoinedAll(joined)
  /\ wpc[joined + 1] = "exited"
  /\ joined' = joined + 1
  /\ UNCHANGED <<p2vars, xqvars, monvars>>
  /\ UNCHANGED <<prodpc, block, nblobs, nelems, chan, wpc, records, xqLock,
                 mainpc, ret, pbf, xqCalls, finishCalls, flushCalls>>

\* self.xq.lock()
LockMain ==
  /\ mainpc = "join"
  /\ JoinedAll(joined)
  /\ xqLock = Free
  /\ xqLock' = Main
  /\ mainpc' = "finish"
  /\ UNCHANGED <<p2vars, xqvars, monvars>>
  /\ UNCHANGED <<prodpc, block, nblobs, nelems, chan, wpc, records, joined,
                 ret, pbf, xqCalls, finishCalls, flushCalls>>

\* xq.finish() is Ok
Finish ==
  /\ mainpc = "finish"
  /\ finishCalls' = finishCalls + 1
  /\ mainpc' = "flush"
  /\ UNCHANGED <<p2vars, xqvars, monvars>>
  /\ UNCHANGED <<prodpc, block, nblobs, nelems, chan, wpc, records, xqLock,
                 joined, ret, pbf, xqCalls, flushCalls>>

\* xq.flush() is Ok; the guard is dropped
Flush ==
  /\ mainpc = "flush"
  /\ flushCalls' = flushCalls + 1
  /\ xqLock' = Free
  /\ mainpc' = "end"
  /\ UNCHANGED <<p2vars, xqvars, monvars>>
  /\ UNCHANGED <<prodpc, block, nblobs, nelems, chan, wpc, records, joined,
                 ret, pbf, xqCalls, finishCalls>>

\* xq.finish() or xq.flush() is Err: unwrap panics
FinalizeFail ==
  /\ mainpc \in {"finish", "flush"}
  /\ mainpc' = "panicked"
  /\ UNCHANGED <<p2vars, xqvars, monvars>>
  /\ UNCHANGED <<prodpc, block, nblobs, nelems, chan, wpc, records, xqLock,
                 joined, ret, pbf, xqCalls, finishCalls, flushCalls>>

\* progress.end("pbf"); Ok(())
EndLoad ==
  /\ mainpc = "end"
  /\ pbf' = [pbf EXCEPT !.state = "ended"]
  /\ ret' = "Ok"
  /\ mainpc' = "done"
  /\ UNCHANGED <<p2vars, xqvars, monvars>>
  /\ UNCHANGED <<prodpc, block, nblobs, nelems, chan, wpc, records, xqLock,
                 joined, xqCalls, finishCalls, flushCalls>>

Producer ==
  \/ OpenPbf
  \/ OpenFail
  \/ SkipBlob
  \/ DataBlob
  \/ BlobError
  \/ EndOfInput
  \/ SendElement
  \/ ProjectFail

Worker(w) ==
  \/ Recv(w)
  \/ RecvClosed(w)
  \/ Lock(w)
  \/ AddRecords(w)
  \/ AddTail(w)

MainThread ==
  \/ StartLoad
  \/ Join
  \/ LockMain
  \/ Finish
  \/ Flush
  \/ FinalizeFail
  \/ EndLoad

NextLoad ==
  \/ Producer
  \/ \E w \in Workers : Worker(w)
  \/ MainThread

(***************************************************************************)
(* Ingest::process, the pure parts.                                        *)
(***************************************************************************)
\* id*3+tag on u64: the wrapped value (release build)
Mux(id, tag) == (id * 3 + tag) % U64

\* id*3+tag does not fit u64: a panic in a build with overflow checks
MuxOverflows(id, tag) == id * 3 + tag >= U64

\* georender_pack::encode::*_from_parsed: the result for a record whose
\* outcome class is enc; the bytes of a non-empty buffer are modelled by the
\* arguments that identify the feature
Encode(enc, fid, feature_type) ==
  CASE enc = "Err"   -> [ok |-> FALSE, bytes |-> <<>>]
    [] enc = "Empty" -> [ok |-> TRUE, bytes |-> <<>>]
    [] enc = "Ok"    -> [ok |-> TRUE, bytes |-> <<fid, feature_type>>]

EmptyMap == [x \in {} |-> <<>>]

\* HashMap::insert
Insert(m, k, v) == [x \in DOMAIN m \cup {k} |-> IF x = k THEN v ELSE m[x]]

\* the map of the positions of the first n dependencies, by osm node id
RECURSIVE PositionDeps(_, _)
PositionDeps(deps, n) ==
  IF n = 0 THEN EmptyMap
  ELSE LET m == PositionDeps(deps, n - 1)
           d == deps[n]
       IN  IF d.pos # NoPos THEN Insert(m, d.id \div 3, d.pos) ELSE m

\* the map of the refs of the first n dependencies that have no position
\* and at least one ref, by osm way id
RECURSIVE RefDeps(_, _)
RefDeps(deps, n) ==
  IF n = 0 THEN EmptyMap
  ELSE LET m == RefDeps(deps, n - 1)
           d == deps[n]
           drefs == [k \in 1..Len(d.refs) |-> d.refs[k] \div 3]
       IN  IF d.pos # NoPos \/ drefs = <<>> THEN m
           ELSE Insert(m, d.id \div 3, drefs)

\* f32::INFINITY; every coordinate of the model lies strictly between
\* -INFINITY and INFINITY
INFINITY == 1000

\* a fold step that keeps the value visited last
FMinLast(a, b) == b

FMin(a, b) == IF a <= b THEN a ELSE b
\* a maximum written as a minimum
FMaxAsMin(a, b) == IF a >= b THEN b ELSE a

FMax(a, b) == IF a >= b THEN a ELSE b

\* the fold of the bbox over the values of the map, in any order
RECURSIVE BBoxFold(_, _, _)
BBoxFold(m, keys, bbox) ==
  IF keys = {} THEN bbox
  ELSE LET k == CHOOSE x \in keys : TRUE
           p == m[k]
       IN  BBoxFold(m, keys \ {k},
                    << FMin(bbox[1], p[1]), FMin(bbox[2], p[2]),
                       FMax(bbox[3], p[1]), FMax(bbox[4], p[2]) >>)

BBox(m) == BBoxFold(m, DOMAIN m, <<INFINITY, INFINITY, -INFINITY, -INFINITY>>)

\* what a row derives from: the record's kind, id and feature type, and the
\* number of node ids and the coordinates of its dependencies that have a
\* position
Source(r) ==
  LET idx == { k \in 1..Len(r.deps) : r.deps[k].pos # NoPos }
  IN  [kind |-> r.kind, id |-> r.id, feature_type |-> r.feature_type,
       nodes |-> Cardinality({ r.deps[k].id \div 3 : k \in idx }),
       coords |-> { r.deps[k].pos : k \in idx }]

Row(point, payload, r) == [point |-> point, payload |-> payload, src |-> Source(r)]

Skip(why) == [ovf |-> FALSE, rows |-> <<>>, why |-> why]

\* a slip in the threshold: only a way or relation without any position is skipped
TooFewOnlyEmpty(m) == Cardinality(DOMAIN m) < 1

\* pdeps.len() <= 1, node_deps.len() <= 1: too few positions for a bbox
TooFew(m) == Cardinality(DOMAIN m) <= 1

\* the Decoded::Node arm
NodeArm(node) ==
  IF node.feature_type = place_other THEN Skip("other")
  ELSE LET r_encoded == Encode(node.enc, Mux(node.id, 0), node.feature_type)
       IN  IF ~r_encoded.ok
           THEN [ovf |-> MuxOverflows(node.id, 0), rows |-> <<>>, why |-> "err"]
           ELSE IF r_encoded.bytes = <<>>
           THEN [ovf |-> MuxOverflows(node.id, 0), rows |-> <<>>, why |-> "empty"]
           ELSE [ovf |-> MuxOverflows(node.id, 0),
                 rows |-> << Row(<<Scalar(node.lon), Scalar(node.lat)>>,
                                 r_encoded.bytes, node) >>,
                 why |-> "row"]

\* the Decoded::Way arm
WayArm(way) ==
  IF way.feature_type = place_other THEN Skip("other")
  ELSE LET pdeps == PositionDeps(way.deps, Len(way.deps))
           bbox == BBox(pdeps)
           r_encoded == Encode(way.enc, Mux(way.id, 1), way.feature_type)
       IN  IF TooFew(pdeps) THEN Skip("short")
           ELSE IF ~r_encoded.ok
           THEN [ovf |-> MuxOverflows(way.id, 1), rows |-> <<>>, why |-> "err"]
           ELSE IF r_encoded.bytes = <<>>
           THEN [ovf |-> MuxOverflows(way.id, 1), rows |-> <<>>, why |-> "empty"]
           ELSE [ovf |-> MuxOverflows(way.id, 1),
                 rows |-> << Row(<<Interval(bbox[1], bbox[3]),
                                   Interval(bbox[2], bbox[4])>>,
                                 r_encoded.bytes, way) >>,
                 why |-> "row"]

\* the Decoded::Relation arm after its feature type check: a row is pushed
\* for every Ok(encoded)
RelationEmit(relation) ==
       LET node_deps == PositionDeps(relation.deps, Len(relation.deps))
           way_deps == RefDeps(relation.deps, Len(relation.deps))
           bbox == BBox(node_deps)
           r_encoded == Encode(relation.enc, Mux(relation.id, 2),
                               relation.feature_type)
       IN  IF TooFew(node_deps) THEN Skip("short")
           ELSE IF ~r_encoded.ok
           THEN [ovf |-> MuxOverflows(relation.id, 2), rows |-> <<>>, why |-> "err"]
           ELSE [ovf |-> MuxOverflows(relation.id, 2),
                 rows |-> << Row(<<Interval(bbox[1], bbox[3]),
                                   Interval(bbox[2], bbox[4])>>,
                                 r_encoded.bytes, relation) >>,
                 why |-> IF r_encoded.bytes = <<>> THEN "empty" ELSE "row"]

\* a relation arm that lacks the feature type check
RelationArmUnchecked(relation) == RelationEmit(relation)

\* the Decoded::Relation arm
RelationArm(relation) ==
  IF relation.feature_type = place_other THEN Skip("other")
  ELSE RelationEmit(relation)

\* match &r
Arm(r) ==
  CASE r.kind = "Node"     -> NodeArm(r)
    [] r.kind = "Way"      -> WayArm(r)
    [] r.kind = "Relation" -> RelationArm(r)

\* what the match arms make of the records read_quad_denorm may return
ArmResults == { Arm(r) : r \in Decoded }

\* the rows of an arm, each marked with the bucket it was pushed for
InBucket(rows, q) ==
  [k \in 1..Len(rows) |->
     [point |-> rows[k].point, payload |-> rows[k].payload,
      src |-> rows[k].src, q |-> q]]

\* a batch allocated once, outside the loop over the buckets
KeptBatch(old) == old

\* Vec::with_capacity(records.len()): the batch a bucket starts with
NewBatch(old) == <<>>

(***************************************************************************)
(* Ingest::process, the steps.                                             *)
(***************************************************************************)
InitProcess ==
  /\ ppc = "start"
  /\ last = "none"
  /\ quad_ids = 0
  /\ qi = 0
  /\ rlen = 0
  /\ ri = 0
  /\ batch = <<>>
  /\ dbArg = <<>>
  /\ batchCalls = 0
  /\ syncCalls = 0
  /\ process = [state |-> "idle", count |-> 0]

\* progress.start("process"); xq.lock(); xq.get_quad_ids()
GetQuadIds ==
  /\ ppc = "start"
  /\ \E n \in 0..MaxQuads : quad_ids' = n
  /\ process' = [process EXCEPT !.state = "started"]
  /\ ppc' = "quads"
  /\ UNCHANGED <<p1vars, xqvars, monvars>>
  /\ UNCHANGED <<last, qi, rlen, ri, batch, dbArg, batchCalls, syncCalls>>

\* for q_id in quad_ids: xq.read_quad_denorm(q_id) returns Ok(records)
ReadQuad ==
  /\ ppc = "quads"
  /\ qi < quad_ids
  /\ qi' = qi + 1
  /\ \E n \in 0..MaxRecs : rlen' = n
  /\ ri' = 0
  /\ batch' = NewBatch(batch)
  /\ last' = "none"
  /\ ppc' = "records"
  /\ UNCHANGED <<p1vars, xqvars, monvars>>
  /\ UNCHANGED <<quad_ids, dbArg, batchCalls, syncCalls, process>>

\* xq.read_quad_denorm(q_id) returns Err: unwrap panics
ReadQuadFail ==
  /\ ppc = "quads"
  /\ qi < quad_ids
  /\ ppc' = "panicked"
  /\ UNCHANGED <<p1vars, xqvars, monvars>>
  /\ UNCHANGED <<last, quad_ids, qi, rlen, ri, batch, dbArg, batchCalls,
                 syncCalls, process>>

\* a loop that unwraps the result of the encoder: an Err panics
ProcessRecordUnwrap ==
  /\ ppc = "records"
  /\ ri < rlen
  /\ \E out \in ArmResults :
       \/ /\ out.why # "err"
          /\ batch' = batch \o InBucket(out.rows, qi)
          /\ last' = out.why
          /\ ri' = ri + 1
          /\ ppc' = ppc
       \/ /\ out.why = "err"
          /\ last' = out.why
          /\ ppc' = "panicked"
          /\ UNCHANGED <<batch, ri>>
       \/ /\ out.ovf
          /\ ppc' = "panicked"
          /\ UNCHANGED <<batch, last, ri>>
  /\ UNCHANGED <<p1vars, xqvars, monvars>>
  /\ UNCHANGED <<quad_ids, qi, rlen, dbArg, batchCalls, syncCalls, process>>

\* for (_r_id,r,deps) in records: one record through its match arm
ProcessRecord ==
  /\ ppc = "records"
  /\ ri < rlen
  /\ \E out \in ArmResults :
       \/ /\ batch' = batch \o InBucket(out.rows, qi)
          /\ last' = out.why
          /\ ri' = ri + 1
          /\ ppc' = ppc
       \/ /\ out.ovf
          /\ ppc' = "panicked"
          /\ UNCHANGED <<batch, last, ri>>
  /\ UNCHANGED <<p1vars, xqvars, monvars>>
  /\ UNCHANGED <<quad_ids, qi, rlen, dbArg, batchCalls, syncCalls, process>>

\* a loop that calls db.batch only for a bucket that has rows
CallBatchIfRows ==
  /\ ppc = "records"
  /\ ri = rlen
  /\ IF batch = <<>>
       THEN /\ process' = [process EXCEPT !.count = @ + rlen]
            /\ ppc' = "quads"
            /\ UNCHANGED dbArg
       ELSE /\ dbArg' = batch
            /\ ppc' = "batch"
            /\ UNCHANGED process
  /\ UNCHANGED <<p1vars, xqvars, monvars>>
  /\ UNCHANGED <<last, quad_ids, qi, rlen, ri, batch, batchCalls, syncCalls>>

\* block_on(db.batch(&batch)): the call is made
CallBatch ==
  /\ ppc = "records"
  /\ ri = rlen
  /\ dbArg' = batch
  /\ ppc' = "batch"
  /\ UNCHANGED <<p1vars, xqvars, monvars>>
  /\ UNCHANGED <<last, quad_ids, qi, rlen, ri, batch, batchCalls, syncCalls,
                 process>>

\* db.batch completes with Ok; progress.add("process", rlen)
BatchDone ==
  /\ ppc = "batch"
  /\ batchCalls' = batchCalls + 1
  /\ process' = [process EXCEPT !.count = @ + rlen]
  /\ dbArg' = <<>>
  /\ ppc' = "quads"
  /\ UNCHANGED <<p1vars, xqvars, monvars>>
  /\ UNCHANGED <<last, quad_ids, qi, rlen, ri, batch, syncCalls>>

\* a loop that drops the Err of db.batch and goes on to the next bucket
BatchFailIgnored ==
  /\ ppc = "batch"
  /\ dbArg' = <<>>
  /\ ppc' = "quads"
  /\ UNCHANGED <<p1vars, xqvars, monvars>>
  /\ UNCHANGED <<last, quad_ids, qi, rlen, ri, batch, batchCalls, syncCalls,
                 process>>

\* db.batch completes with Err: unwrap panics
BatchFail ==
  /\ ppc = "batch"
  /\ ppc' = "panicked"
  /\ UNCHANGED <<p1vars, xqvars, monvars>>
  /\ UNCHANGED <<last, quad_ids, qi, rlen, ri, batch, dbArg, batchCalls,
                 syncCalls, process>>

\* after the loop: block_on(db.sync()): the call is made
CallSync ==
  /\ ppc = "quads"
  /\ qi = quad_ids
  /\ ppc' = "sync"
  /\ UNCHANGED <<p1vars, xqvars, monvars>>
  /\ UNCHANGED <<last, quad_ids, qi, rlen, ri, batch, dbArg, batchCalls,
                 syncCalls, process>>

\* db.sync completes with Ok
SyncDone ==
  /\ ppc = "sync"
  /\ syncCalls' = syncCalls + 1
  /\ ppc' = "end"
  /\ UNCHANGED <<p1vars, xqvars, monvars>>
  /\ UNCHANGED <<last, quad_ids, qi, rlen, ri, batch, dbArg, batchCalls,
                 process>>

\* db.sync completes with Err: unwrap panics
SyncFail ==
  /\ ppc = "sync"
  /\ ppc' = "panicked"
  /\ UNCHANGED <<p1vars, xqvars, monvars>>
  /\ UNCHANGED <<last, quad_ids, qi, rlen, ri, batch, dbArg, batchCalls,
                 syncCalls, process>>

\* progress.end("process")
EndProcess ==
  /\ ppc = "end"
  /\ process' = [process EXCEPT !.state = "ended"]
  /\ ppc' = "done"
  /\ UNCHANGED <<p1vars, xqvars, monvars>>
  /\ UNCHANGED <<last, quad_ids, qi, rlen, ri, batch, dbArg, batchCalls,
                 syncCalls>>

NextProcess ==
  \/ GetQuadIds
  \/ ReadQuad
  \/ ReadQuadFail
  \/ ProcessRecord
  \/ CallBatch
  \/ BatchDone
  \/ BatchFail
  \/ CallSync
  \/ SyncDone
  \/ SyncFail
  \/ EndProcess

\* no store contents are kept while the phases are followed step by step
InitStore ==
  /\ xq = <<>>
  /\ runs = <<>>

\* run() before Monitor::open: no display thread yet
InitCli ==
  /\ cli = "start"
  /\ mon = "none"
  /\ stop = FALSE
  /\ prRead = FALSE
  /\ rendered = FALSE

Init == InitLoad /\ InitProcess /\ InitStore /\ InitCli

\* load_pbf alone (the command "pbf")
SpecLoad == Init /\ [][NextLoad]_vars

\* load_pbf under fair scheduling of its threads
FairLoad ==
  /\ WF_vars(Producer)
  /\ \A w \in Workers : WF_vars(Worker(w))
  /\ WF_vars(MainThread)

FairSpecLoad == SpecLoad /\ FairLoad

\* process alone (the command "process")
SpecProcess == Init /\ [][NextProcess]_vars

\* ---- the command "ingest": load_pbf(pbf)?; process() ----

\* the largest input of the command "ingest", in blobs and in elements
MaxIngestElems == 1

\* the records load_pbf handed to the quad store
StoreRecords == UNION { SeqSet(xqCalls[i].recs) : i \in DOMAIN xqCalls }

\* load_pbf inside the command "ingest"
IngestLoad ==
  /\ NextLoad
  /\ nblobs' <= MaxIngestElems
  /\ nelems + Len(block') <= MaxIngestElems

\* read_quad_denorm inside the command "ingest": the buckets hold no more
\* records than load_pbf handed to the store
IngestReadQuad ==
  /\ ret = "Ok"
  /\ ReadQuad
  /\ process.count + rlen' <= Cardinality(StoreRecords)

\* the other steps of process inside the command "ingest", taken once
\* load_pbf has returned Ok(())
IngestProcess ==
  /\ ret = "Ok"
  /\ \/ GetQuadIds
     \/ ReadQuadFail
     \/ ProcessRecord
     \/ CallBatch
     \/ BatchDone
     \/ BatchFail
     \/ CallSync
     \/ SyncDone
     \/ SyncFail
     \/ EndProcess

NextIngest ==
  \/ IngestLoad
  \/ IngestReadQuad
  \/ IngestProcess

SpecIngest == Init /\ [][NextIngest]_vars

\* ---- process() run again on one quad store ----

\* runs of process() made on one store
MaxRuns == 2

\* the orders in which n things may be visited
Perms(n) ==
  { p \in [1..n -> 1..n] : \A i, j \in 1..n : p[i] = p[j] => i = j }

\* the orders in which HashMap::values may visit the entries of the map
KeyOrders(m) ==
  { o \in [1..Cardinality(DOMAIN m) -> DOMAIN m] :
      \A i, j \in DOMAIN o : o[i] = o[j] => i = j }

\* the fold of the bbox over the values of the map, visited in the order
\* given
RECURSIVE BBoxOver(_, _, _)
BBoxOver(m, order, n) ==
  IF n = 0 THEN <<INFINITY, INFINITY, -INFINITY, -INFINITY>>
  ELSE LET bbox == BBoxOver(m, order, n - 1)
           p == m[order[n]]
       IN  << FMin(bbox[1], p[1]), FMin(bbox[2], p[2]),
              FMax(bbox[3], p[1]), FMax(bbox[4], p[2]) >>

\* the record as read_quad_denorm returns it when it lists the
\* dependencies in the order p
Listed(r, p) == [r EXCEPT !.deps = [k \in 1..Len(r.deps) |-> r.deps[p[k]]]]

\* the rows the match arm pushes for the record, its dependencies listed in
\* the order p and its map iterated in the order o: key and payload, and
\* the record they were pushed for
VisitRows(r, p, o) ==
  LET rv == Listed(r, p)
      out == Arm(rv)
      bbox == BBoxOver(PositionDeps(rv.deps, Len(rv.deps)), o, Len(o))
  IN  [ovf |-> out.ovf,
       rows |-> { [point |-> IF r.kind = "Node" THEN row.point
                             ELSE <<Interval(bbox[1], bbox[3]),
                                    Interval(bbox[2], bbox[4])>>,
                   payload |-> row.payload, rec |-> r] :
                 row \in SeqSet(out.rows) }]

\* what the match arm may push for the record, over every order
RecordVisits(r) ==
  { VisitRows(r, p, o) :
      p \in Perms(Len(r.deps)),
      o \in KeyOrders(PositionDeps(r.deps, Len(r.deps))) }

VisitsOf == [r \in Decoded |-> RecordVisits(r)]

\* what the loop over the first n records of a bucket may collect
RECURSIVE BucketVisits(_, _)
BucketVisits(b, n) ==
  IF n = 0 THEN {[ovf |-> FALSE, rows |-> {}]}
  ELSE { [ovf |-> a.ovf \/ v.ovf, rows |-> a.rows \cup v.rows] :
           a \in BucketVisits(b, n - 1), v \in VisitsOf[b[n]] }

\* what a run may have passed to db.batch after the first n buckets of the
\* order: the batch of a bucket is passed once its records are through; an
\* id that overflows panics in a build with overflow checks
RECURSIVE RunOutcomes(_, _, _)
RunOutcomes(order, n, checks) ==
  IF n = 0 THEN {[done |-> TRUE, rows |-> {}]}
  ELSE { IF ~prev.done THEN prev
         ELSE IF checks /\ b.ovf THEN [done |-> FALSE, rows |-> prev.rows]
         ELSE [done |-> TRUE, rows |-> prev.rows \cup b.rows] :
           prev \in RunOutcomes(order, n - 1, checks),
           b \in BucketVisits(xq[order[n]], Len(xq[order[n]])) }

\* the nodes of the second bucket
StoreNodes == { n \in Nodes : n.enc = "Ok" /\ n.lon = 0 }

\* the stores: a bucket of any one record and a bucket of one node
Stores == { << <<r>>, <<n>> >> : r \in Decoded, n \in StoreNodes }

InitRerun ==
  /\ InitLoad
  /\ InitProcess
  /\ xq \in Stores
  /\ runs = <<>>
  /\ InitCli

\* one run of process() on the store, from get_quad_ids to the end: the
\* store is only read
Rerun ==
  /\ Len(runs) < MaxRuns
  /\ \E order \in Perms(Len(xq)), checks \in BOOLEAN :
       \E out \in RunOutcomes(order, Len(xq), checks) :
         runs' = Append(runs, out)
  /\ xq' = xq
  /\ UNCHANGED <<p1vars, p2vars, monvars>>

SpecRerun == InitRerun /\ [][Rerun]_vars

(***************************************************************************)
(* The commands "pbf" and "process" with their Monitor (bin.rs).           *)
(***************************************************************************)
\* Monitor::open spawns the display thread; the command then runs its phase
MonitorOpen ==
  /\ cli = "start"
  /\ \E c \in {"pbf", "process"} : cli' = c
  /\ mon' = "sleep"
  /\ UNCHANGED <<stop, prRead, rendered>>
  /\ UNCHANGED <<p1vars, p2vars, xqvars>>

\* the steps of load_pbf that take the write guard of the progress (start,
\* add, push_err, end): they wait while a read guard is held
CliLoadWrite ==
  /\ cli = "pbf"
  /\ ~prRead
  /\ \/ StartLoad
     \/ \E w \in Workers : AddRecords(w)
     \/ \E w \in Workers : AddTail(w)
     \/ EndLoad

\* the other steps of load_pbf
CliLoadStep ==
  /\ cli = "pbf"
  /\ \/ Producer
     \/ \E w \in Workers : Recv(w) \/ RecvClosed(w) \/ Lock(w)
     \/ Join
     \/ LockMain
     \/ Finish
     \/ Flush
     \/ FinalizeFail

\* the steps of process that take the write guard of the progress
CliProcessWrite ==
  /\ cli = "process"
  /\ ~prRead
  /\ \/ GetQuadIds
     \/ BatchDone
     \/ EndProcess

\* read_quad_denorm in the command "process", on a store of at most
\* MaxIngestElems records
CliReadQuad ==
  /\ cli = "process"
  /\ ReadQuad
  /\ process.count + rlen' <= MaxIngestElems

\* the other steps of process
CliProcessStep ==
  /\ cli = "process"
  /\ \/ ReadQuadFail
     \/ ProcessRecord
     \/ CallBatch
     \/ BatchFail
     \/ CallSync
     \/ SyncDone
     \/ SyncFail

\* p.end() once the phase has returned: the flag is set
MonitorEnd ==
  /\ \/ cli = "pbf" /\ ret = "Ok"
     \/ cli = "process" /\ ppc = "done"
  /\ stop' = TRUE
  /\ cli' = "ended"
  /\ UNCHANGED <<mon, prRead, rendered>>
  /\ UNCHANGED <<p1vars, p2vars, xqvars>>

\* eprintln and the return of run and of main: the program exits, and the
\* display thread, which nobody joins, ends with it
CliExit ==
  /\ cli = "ended"
  /\ cli' = "exited"
  /\ UNCHANGED <<mon, stop, prRead, rendered>>
  /\ UNCHANGED <<p1vars, p2vars, xqvars>>

\* a panic of the main thread inside the phase: the program exits without
\* p.end()
CliPanic ==
  /\ \/ cli = "pbf" /\ mainpc = "panicked"
     \/ cli = "process" /\ ppc = "panicked"
  /\ cli' = "exited"
  /\ UNCHANGED <<mon, stop, prRead, rendered>>
  /\ UNCHANGED <<p1vars, p2vars, xqvars>>

\* ---- the display thread ----

\* the sleep of one second is over; p.read()
MonWake ==
  /\ cli # "exited"
  /\ mon = "sleep"
  /\ mon' = "print"
  /\ prRead' = TRUE
  /\ UNCHANGED <<cli, stop, rendered>>
  /\ UNCHANGED <<p1vars, p2vars, xqvars>>

\* a display thread that keeps its read guard after the print
MonPrintKeepsGuard ==
  /\ cli # "exited"
  /\ mon = "print"
  /\ mon' = "tick"
  /\ UNCHANGED <<cli, stop, prRead, rendered>>
  /\ UNCHANGED <<p1vars, p2vars, xqvars>>

\* Self::print(&pr, first); the read guard is dropped at the end of the block
MonPrint ==
  /\ cli # "exited"
  /\ mon = "print"
  /\ mon' = "tick"
  /\ prRead' = FALSE
  /\ UNCHANGED <<cli, stop, rendered>>
  /\ UNCHANGED <<p1vars, p2vars, xqvars>>

\* p.write().unwrap().tick(): waits while a read guard is held
MonTick ==
  /\ cli # "exited"
  /\ mon = "tick"
  /\ ~prRead
  /\ mon' = "check"
  /\ UNCHANGED <<cli, stop, prRead, rendered>>
  /\ UNCHANGED <<p1vars, p2vars, xqvars>>

\* if *s.read().unwrap(): the flag is read; when it is set, p.read()
MonCheck ==
  /\ cli # "exited"
  /\ mon = "check"
  /\ mon' = IF stop THEN "final" ELSE "sleep"
  /\ prRead' = stop
  /\ UNCHANGED <<cli, stop, rendered>>
  /\ UNCHANGED <<p1vars, p2vars, xqvars>>

\* Self::print(&pr, false); break
MonFinal ==
  /\ cli # "exited"
  /\ mon = "final"
  /\ rendered' = TRUE
  /\ prRead' = FALSE
  /\ mon' = "stopped"
  /\ UNCHANGED <<cli, stop>>
  /\ UNCHANGED <<p1vars, p2vars, xqvars>>

MonitorThread ==
  \/ MonWake
  \/ MonPrint
  \/ MonTick
  \/ MonCheck
  \/ MonFinal

\* the threads of the phase the command runs
PhaseThreads ==
  \/ CliLoadWrite
  \/ CliLoadStep
  \/ CliProcessWrite
  \/ CliReadQuad
  \/ CliProcessStep

NextCli ==
  \/ MonitorOpen
  \/ PhaseThreads
  \/ MonitorEnd
  \/ CliExit
  \/ CliPanic
  \/ MonitorThread

SpecCli == Init /\ [][NextCli]_vars

(***************************************************************************)
(* The properties of Ingest::load_pbf.                                     *)
(***************************************************************************)
AllExited == \A w \in Workers : wpc[w] = "exited"

FailedCalls == { k \in 1..Len(xqCalls) : ~xqCalls[k].ok }

\* C4: when the decoding of a blob has failed in the producer, load_pbf
\* does not return success.
C4_DecodeErrorReported ==
  (prodpc = "failed" /\ mainpc = "done") => ret = "Err"

\* C5: finish is called once and only after every worker has exited, so no
\* add_records call starts or is in progress once the main thread holds the
\* store for finish; flush is called after finish has returned; the pbf
\* stage is ended only after flush has returned.
C5_FinishAfterWorkers ==
  /\ finishCalls <= 1
  /\ flushCalls <= 1
  /\ (xqLock = Main \/ finishCalls > 0) => AllExited
  /\ mainpc = "finish" => finishCalls = 0 /\ flushCalls = 0
  /\ mainpc = "flush" => finishCalls = 1 /\ flushCalls = 0
  /\ mainpc \in {"end", "done"} => finishCalls = 1 /\ flushCalls = 1
  /\ flushCalls = 1 => finishCalls = 1
  /\ pbf.state = "ended" => flushCalls = 1 /\ mainpc = "done"

\* load_pbf has returned after every worker committed a remainder
C5_Witness ==
  /\ mainpc = "done"
  /\ \A w \in Workers : records[w] # <<>>

\* what holds in every state when add_records fails: one error is pushed for
\* each failed call, no record is given to add_records twice, a worker back
\* at recv holds no record of a failed batch, and a load_pbf that returns
\* has run finish and flush and ended the stage
C6_Safe ==
  /\ pbf.errors = Cardinality(FailedCalls)
  /\ \A i, j \in 1..Len(xqCalls) :
       i < j => SeqSet(xqCalls[i].recs) \cap SeqSet(xqCalls[j].recs) = {}
  /\ \A w \in Workers : \A k \in FailedCalls :
       wpc[w] = "recv" => SeqSet(records[w]) \cap SeqSet(xqCalls[k].recs) = {}
  /\ mainpc = "panicked" => xqLock = Main /\ AllExited
  /\ mainpc = "done" =>
       /\ finishCalls = 1
       /\ flushCalls = 1
       /\ pbf.state = "ended"
       /\ \A e \in 1..nelems : \E k \in 1..Len(xqCalls) : e \in SeqSet(xqCalls[k].recs)

\* C6: a failed add_records is not fatal: the error is pushed, the batch is
\* dropped and never retried, the records sent later are still given to
\* add_records, and under fair scheduling load_pbf goes on to finish and
\* flush: it returns with the stage ended unless finish or flush itself fails.
C6_AddRecordsErrorNotFatal ==
  /\ []C6_Safe
  /\ (pbf.errors > 0) ~> (mainpc \in {"done", "panicked"})

\* load_pbf has returned after a worker's full batch failed and the same
\* worker committed a later record
C6_Witness ==
  /\ mainpc = "done"
  /\ pbf.state = "ended"
  /\ \E i, j \in 1..Len(xqCalls) :
       /\ i < j
       /\ ~xqCalls[i].ok
       /\ xqCalls[j].ok
       /\ xqCalls[i].w = xqCalls[j].w

\* C7: an element that cannot be projected is the only one dropped: when
\* load_pbf returns, no element that can be projected is left unsent in the
\* block of the element that could not.
C7_OnlyElementDropped ==
  mainpc = "done" => \A k \in 1..Len(block) : ~block[k]

(***************************************************************************)
(* The properties of Ingest::process.                                      *)
(***************************************************************************)
Tag(kind) == CASE kind = "Node" -> 0 [] kind = "Way" -> 1 [] kind = "Relation" -> 2

\* the rows of the EDB.batch call in flight that come from a way or relation
IntervalRows ==
  { k \in 1..Len(dbArg) : dbArg[k].src.kind \in {"Way", "Relation"} }

\* C1: no row given to EDB.batch has an empty payload, whatever the variant
\* of the record it derives from.
C1_NoEmptyPayload ==
  \A k \in 1..Len(dbArg) : dbArg[k].payload # <<>>

\* C2: no row given to EDB.batch derives from a record whose feature type
\* is place.other.
C2_NoPlaceOther ==
  \A k \in 1..Len(dbArg) : dbArg[k].src.feature_type # place_other

\* a batch with rows is given to EDB.batch for a bucket whose last record
\* was skipped for its feature type place.other
C2_Witness ==
  /\ ppc = "batch"
  /\ last = "other"
  /\ dbArg # <<>>

\* C3 as stated: every way or relation row has an ordered interval key and
\* derives from at least two distinct coordinates (stated of the rows with a
\* payload, the ones that are not the empty rows of C1).
C3_DistinctCoordinates ==
  \A k \in IntervalRows :
    dbArg[k].payload # <<>> =>
    /\ dbArg[k].point[1][2] <= dbArg[k].point[1][3]
    /\ dbArg[k].point[2][2] <= dbArg[k].point[2][3]
    /\ Cardinality(dbArg[k].src.coords) >= 2

\* C3 as amended: every way or relation row has an ordered interval key and
\* derives from dependencies with a position under at least two distinct
\* node ids (that may share one coordinate); a way or relation whose
\* dependencies with a position all have one node id writes no row.
C3_DistinctNodes ==
  \A k \in IntervalRows :
    /\ dbArg[k].point[1][1] = "Interval"
    /\ dbArg[k].point[2][1] = "Interval"
    /\ dbArg[k].point[1][2] <= dbArg[k].point[1][3]
    /\ dbArg[k].point[2][2] <= dbArg[k].point[2][3]
    /\ dbArg[k].src.nodes >= 2

\* a batch holds a way row of two nodes at one coordinate, and the last
\* record of the bucket was skipped for having too few positions
C3_Witness ==
  /\ ppc = "batch"
  /\ last = "short"
  /\ \E k \in IntervalRows :
       /\ dbArg[k].src.kind = "Way"
       /\ dbArg[k].src.nodes = 2
       /\ Cardinality(dbArg[k].src.coords) = 1

\* C8: EDB.batch is called once per bucket read, with rows of that bucket
\* only, and has completed before the next bucket is read; EDB.sync is
\* called once, after the batch of the last bucket; the stage is ended only
\* after sync has completed.
C8_BatchPerBucket ==
  /\ ppc = "quads" => batchCalls = qi
  /\ ppc \in {"records", "batch"} => batchCalls = qi - 1 /\ syncCalls = 0
  /\ ppc \in {"sync", "end", "done"} => batchCalls = quad_ids /\ qi = quad_ids
  /\ ppc = "sync" => syncCalls = 0
  /\ ppc \in {"end", "done"} => syncCalls = 1
  /\ syncCalls <= 1
  /\ process.state = "ended" => syncCalls = 1 /\ ppc = "done"
  /\ ppc = "done" => process.state = "ended"
  /\ ppc \notin {"batch", "panicked"} => dbArg = <<>>
  /\ \A k \in 1..Len(batch) : batch[k].q = qi
  /\ \A k \in 1..Len(dbArg) : dbArg[k].q = qi

\* process() is done after two buckets or more, one of them without rows
C8_Witness ==
  /\ ppc = "done"
  /\ batchCalls >= 2
  /\ last = "none"
  /\ process.count > 0

\* C9: the feature id given to the encoder is osm id * 3 + tag, congruent
\* to the tag modulo 3, and its division by 3 gives back the osm id.
C9_FeatureIds ==
  \A k \in 1..Len(dbArg) :
    dbArg[k].payload # <<>> =>
      LET fid == dbArg[k].payload[1]
          src == dbArg[k].src
      IN  /\ fid = src.id * 3 + Tag(src.kind)
          /\ fid % 3 = Tag(src.kind)
          /\ fid \div 3 = src.id

\* C10: a bucket's batch never has more rows than records read from the
\* bucket.
C10_AtMostOneRowPerRecord ==
  /\ Len(batch) <= ri
  /\ ri <= rlen
  /\ Len(dbArg) <= rlen

\* a batch of one row for a bucket of two records or more
C10_Witness ==
  /\ ppc = "batch"
  /\ rlen >= 2
  /\ Len(dbArg) = 1

\* the records of the batches for which add_records returned Ok
Committed ==
  UNION { SeqSet(xqCalls[i].recs) : i \in { k \in DOMAIN xqCalls : xqCalls[k].ok } }

\* C14: once the workers have ended, the count of stage pbf is the number of
\* records of the batches for which add_records returned Ok.
C14_CountOnlyCommitted ==
  AllExited => pbf.count = Cardinality(Committed)

\* the places of element e in the batches passed to add_records
Passes(e) ==
  { c \in (DOMAIN xqCalls) \X (1..BATCH_SIZE) :
      c[2] <= Len(xqCalls[c[1]].recs) /\ xqCalls[c[1]].recs[c[2]] = e }

\* C15: when finish is called and no add_records call has failed, every
\* element the producer sent has been passed to add_records in exactly one
\* batch, the final partial batches included, and nothing else was passed.
C15_EveryElementOnce ==
  (mainpc = "finish" /\ \A i \in DOMAIN xqCalls : xqCalls[i].ok) =>
    /\ \A e \in 1..nelems : Cardinality(Passes(e)) = 1
    /\ \A i \in DOMAIN xqCalls : SeqSet(xqCalls[i].recs) \subseteq 1..nelems
    /\ Cardinality(Committed) = nelems

\* finish is called after MaxElems elements went through both workers, in a
\* full batch and a final partial one, all committed
C15_Witness ==
  /\ mainpc = "finish"
  /\ nelems = MaxElems
  /\ \A i \in DOMAIN xqCalls : xqCalls[i].ok
  /\ \E i, j \in DOMAIN xqCalls :
       /\ xqCalls[i].w # xqCalls[j].w
       /\ Len(xqCalls[i].recs) = BATCH_SIZE
       /\ Len(xqCalls[j].recs) < BATCH_SIZE

\* the producer thread has ended: after the last blob, on a blob error or
\* by a panic
ProducerStopped == prodpc \in {"done", "failed", "panicked"}

\* C16: once the producer has stopped, the workers drain the channel, pass
\* what they hold to add_records and end, and load_pbf comes to its end
\* (it returns, or panics on an Err of finish or flush): no worker stays in
\* recv and main does not stay in join.
C16_DrainAndReturn ==
  /\ ProducerStopped ~>
       (AllExited /\ chan = <<>> /\ \A e \in 1..nelems : Passes(e) # {})
  /\ ProducerStopped ~> (mainpc \in {"done", "panicked"})

\* load_pbf has returned after a panic of the producer; the elements sent
\* before it were all passed to add_records
C16_Witness ==
  /\ prodpc = "panicked"
  /\ mainpc = "done"
  /\ nelems >= 2
  /\ \A e \in 1..nelems : Passes(e) # {}

\* the threads inside a quad store operation: add_records, finish, flush
InStore ==
  { w \in Workers : wpc[w] \in {"add", "add_tail"} } \cup
  (IF mainpc \in {"finish", "flush"} THEN {Main} ELSE {})

\* C17: at most one thread is inside a quad store operation, and it holds
\* the mutex of the store.
C17_StoreSerialized ==
  /\ Cardinality(InStore) <= 1
  /\ \A t \in InStore : xqLock = t

\* a worker is inside add_records while another waits for the mutex
C17_Witness ==
  \E w, v \in Workers :
    /\ wpc[w] \in {"add", "add_tail"}
    /\ wpc[v] \in {"lock", "lock_tail"}
    /\ xqLock = w

\* C18: the channel never holds more than CHANNEL_CAP items, no worker's Vec
\* more than BATCH_SIZE records, and every add_records call carries between
\* 1 and BATCH_SIZE records.
C18_BoundedMemory ==
  /\ Len(chan) <= CHANNEL_CAP
  /\ \A w \in Workers : Len(records[w]) <= BATCH_SIZE
  /\ \A i \in DOMAIN xqCalls :
       Len(xqCalls[i].recs) >= 1 /\ Len(xqCalls[i].recs) <= BATCH_SIZE

\* the channel is full, the producer waits in send with its next record,
\* and a worker holds a record
C18_Witness ==
  /\ Len(chan) = CHANNEL_CAP
  /\ prodpc = "block"
  /\ Head(block)
  /\ \E w \in Workers : records[w] # <<>> /\ wpc[w] = "recv"

(***************************************************************************)
(* The properties of the command "ingest" and of both phases.              *)
(***************************************************************************)
\* a stage is ended only after every finalizing store call of its phase has
\* returned Ok
C11_Safe ==
  /\ pbf.state = "ended" => finishCalls = 1 /\ flushCalls = 1
  /\ mainpc = "panicked" => pbf.state # "ended" /\ ret = "none"
  /\ process.state = "ended" => batchCalls = quad_ids /\ syncCalls = 1
  /\ ppc = "panicked" => process.state # "ended"

\* C11: an Err of finish, flush, batch or sync ends its phase: after it no
\* store operation is made, no bucket is read or written, and the stage is
\* never ended; a stage that is ended has had all these calls return Ok.
C11_StoreErrorFatal ==
  /\ []C11_Safe
  /\ [][(mainpc = "panicked" \/ ppc = "panicked") => UNCHANGED vars]_vars

\* db.batch returned Err for a batch with rows, after load_pbf has
\* returned, and a later bucket is left unread
C11_Witness ==
  /\ ret = "Ok"
  /\ finishCalls = 1
  /\ ppc = "panicked"
  /\ dbArg # <<>>
  /\ qi < quad_ids

\* the producer has read the whole input and found no data element
EmptyInput == prodpc = "done" /\ nelems = 0

\* on an empty input no record reaches a worker or the store, and process
\* reads no record and builds no row
C12_Safe ==
  EmptyInput =>
    /\ chan = <<>>
    /\ \A w \in Workers : records[w] = <<>>
    /\ xqCalls = <<>>
    /\ pbf.count = 0 /\ pbf.errors = 0
    /\ mainpc = "done" =>
         finishCalls = 1 /\ flushCalls = 1 /\ pbf.state = "ended"
    /\ rlen = 0 /\ batch = <<>> /\ dbArg = <<>>
    /\ process.count = 0
    /\ ppc = "done" => syncCalls = 1 /\ process.state = "ended"

\* the steps the main thread has left: joins, lock, finish, flush, end
MainRank ==
  CASE mainpc = "join"   -> 4 + NUM_WORKERS - joined
    [] mainpc = "finish" -> 3
    [] mainpc = "flush"  -> 2
    [] mainpc = "end"    -> 1
    [] OTHER             -> 0

\* the steps process has left: three for a bucket (read, call, completion),
\* then sync, its completion and the end of the stage
ProcessRank ==
  CASE ppc = "start"   -> 3 * MaxQuads + 4
    [] ppc = "quads"   -> 3 * (quad_ids - qi) + 3
    [] ppc = "records" -> 3 * (quad_ids - qi) + 5
    [] ppc = "batch"   -> 3 * (quad_ids - qi) + 4
    [] ppc = "sync"    -> 2
    [] ppc = "end"     -> 1
    [] OTHER           -> 0

\* the steps the command has left once the input is known to be empty
EmptyRank ==
  MainRank + Cardinality({w \in Workers : wpc[w] # "exited"}) + ProcessRank

\* the command is over: process is done, or a store call has panicked
IngestOver == ppc \in {"done", "panicked"} \/ mainpc = "panicked"

\* C12: on an input without data elements load_pbf makes no add_records
\* call, runs finish and flush and ends the pbf stage; process then inserts
\* no row, calls sync and ends the process stage; the command terminates
\* (unless one of these store calls returns Err, which panics): until it is
\* over some thread can step, and every step lowers EmptyRank.
C12_EmptyInput ==
  /\ []C12_Safe
  /\ [](EmptyInput /\ ~IngestOver => ENABLED NextIngest)
  /\ [][EmptyInput => EmptyRank' < EmptyRank]_vars

\* both phases are done on an input of header blobs only, with buckets read
C12_Witness ==
  /\ EmptyInput
  /\ nblobs >= 1
  /\ ppc = "done"
  /\ process.state = "ended"
  /\ batchCalls >= 1

\* C20: a record for which the encoder returns Err adds no row and ends its
\* iteration of the loop; process goes on with the next record of the
\* bucket or, after the last, gives the bucket's batch to db.batch, and
\* then reads the next bucket.
C20_EncoderErrorSkipped ==
  /\ [][(last' = "err" /\ (last # "err" \/ ri' # ri)) =>
          (ri' = ri + 1 /\ batch' = batch /\ ppc' = "records" /\ qi' = qi)]_vars
  /\ [](ppc = "records" /\ last = "err" =>
          IF ri < rlen THEN ENABLED ProcessRecord ELSE ENABLED CallBatch)
  /\ [](ppc = "batch" => ENABLED BatchDone)
  /\ [](ppc = "quads" /\ qi < quad_ids => ENABLED ReadQuad)

\* db.batch is given the one row of a bucket of two records, the second of
\* which the encoder refused, and a bucket is left to read
C20_Witness ==
  /\ ppc = "batch"
  /\ last = "err"
  /\ rlen = 2
  /\ Len(dbArg) = 1
  /\ qi < quad_ids

(***************************************************************************)
(* The properties of process() run again.                                  *)
(***************************************************************************)
\* the (key, payload) pairs of a set of rows
KeyPayload(rows) == { <<row.point, row.payload>> : row \in rows }

\* C13: process() leaves the quad store as it is, and any two runs on one
\* store that reach their end pass the same set of (key, payload) rows to
\* db.batch, whatever the order of the buckets, of the dependencies of a
\* record and of the iteration of its map.
C13_RerunSameRows ==
  /\ [](\A i, j \in DOMAIN runs :
          runs[i].done /\ runs[j].done =>
            KeyPayload(runs[i].rows) = KeyPayload(runs[j].rows))
  /\ [][xq' = xq]_vars

\* two runs have ended on a store with a way or relation over two nodes or
\* more; both passed its row and the row of the node of the other bucket
C13_Witness ==
  /\ Len(runs) >= 2
  /\ runs[1].done /\ runs[2].done
  /\ Cardinality(runs[1].rows) = 2
  /\ \E row \in runs[2].rows :
       /\ row.point[1][1] = "Interval"
       /\ row.point[1][2] < row.point[1][3]
  /\ Len(xq[1][1].deps) >= 3

(***************************************************************************)
(* The keys of the rows.                                                   *)
(***************************************************************************)
\* the least and the greatest of a non-empty set of numbers
Least(S) == CHOOSE x \in S : \A y \in S : x <= y
Greatest(S) == CHOOSE x \in S : \A y \in S : x >= y

\* the positions of the dependencies of the record that have a position
Positions(r) ==
  { r.deps[k].pos : k \in { i \in 1..Len(r.deps) : r.deps[i].pos # NoPos } }

\* the key a row of the record should have: the point of a node; for a way
\* or relation the bbox of the positions of its dependencies
ExactKey(r) ==
  IF r.kind = "Node" THEN <<Scalar(r.lon), Scalar(r.lat)>>
  ELSE LET lons == { p[1] : p \in Positions(r) }
           lats == { p[2] : p \in Positions(r) }
       IN  << Interval(Least(lons), Greatest(lons)),
              Interval(Least(lats), Greatest(lats)) >>

\* C19: a node row is keyed by the point of the node; a way or relation row
\* by the bbox of the positions of its dependencies that have a position,
\* the refs of its other dependencies adding nothing; in every order of
\* visit.
C19_ExactKeys ==
  \A i \in DOMAIN runs : \A row \in runs[i].rows :
    row.point = ExactKey(row.rec)

\* a run has passed the row of a relation over nodes at one point that also
\* has a way dependency with refs to a node elsewhere, beside the row of a
\* node
C19_Witness ==
  /\ Len(runs) >= 1
  /\ \E row \in runs[1].rows :
       /\ row.rec.kind = "Relation"
       /\ \E k \in 1..Len(row.rec.deps) : row.rec.deps[k].refs # <<>>
       /\ Positions(row.rec) = {<<0, 1>>}
       /\ row.point = <<Interval(0, 0), Interval(1, 1)>>
  /\ \E row \in runs[1].rows :
       /\ row.rec.kind = "Node"
       /\ row.point = <<Scalar(0), Scalar(0)>>

(***************************************************************************)
(* The properties of the commands with their Monitor.                      *)
(***************************************************************************)
\* C21: when the program exits after Monitor::end was called, the display
\* thread has printed its final render.
C21_FinalRenderBeforeExit ==
  (cli = "exited" /\ stop) => rendered

\* the phase of the command is not over
Unfinished ==
  \/ cli = "pbf" /\ mainpc \notin {"done", "panicked"}
  \/ cli = "process" /\ ppc \notin {"done", "panicked"}

\* the display thread is alive
MonitorLive == cli # "exited" /\ mon \in {"sleep", "print", "tick", "check", "final"}

\* C22: with the display thread running there is no deadlock. The display
\* thread holds the read guard of the progress only while it prints, never
\* under its write for tick, and can always step; a worker writes the
\* progress only inside the store mutex, main only outside it; and while
\* the phase is unfinished one of its threads can step whenever the read
\* guard is not held.
C22_DeadlockFree ==
  /\ prRead => mon \in {"print", "final"}
  /\ Unfinished => MonitorLive
  /\ MonitorLive => ENABLED MonitorThread
  /\ \A w \in Workers : wpc[w] \in {"add", "add_tail"} => xqLock = w
  /\ mainpc \in {"start", "end"} => xqLock # Main
  /\ (Unfinished /\ ~prRead) => ENABLED PhaseThreads

\* a worker inside the store mutex waits to write the progress while the
\* display thread prints under its read guard, and another worker waits for
\* the store mutex
C22_Witness ==
  /\ cli = "pbf"
  /\ mon = "print"
  /\ prRead
  /\ \E w, v \in Workers :
       /\ wpc[w] = "add"
       /\ xqLock = w
       /\ wpc[v] \in {"lock", "lock_tail"}
  /\ ~ENABLED PhaseThreads

====
